---- MODULE Spec2Model ----
(***************************************************************************)
(* Model of the SDN controller of sdn.py: the topology graph G with its    *)
(* per-edge num_flows counters, the flow_table, and the operations         *)
(* inject_flow, remove_flow and fail_link, plus the shell's insert_link.   *)
(*                                                                         *)
(* Representation.  An undirected edge is the set {u, v}; G's edge set is  *)
(* DOMAIN num_flows.  A path is a sequence of nodes; Python's None (no     *)
(* path, no backup) is the empty sequence, which is falsy like None and    *)
(* which no path computation returns.  flow_table is a sequence of entries *)
(* in dict insertion order.  networkx is a library: its two path functions *)
(* are modelled by their contracts, and where the contract leaves the      *)
(* order among equal-length paths to the library, every order is allowed.  *)
(***************************************************************************)
EXTENDS Integers, Sequences, FiniteSets, TLC

VARIABLES nodes, num_flows, flow_table, outcome, ops

vars == <<nodes, num_flows, flow_table, outcome, ops>>

\* ------------------------------------------------------------------ bounds
\* Most records the flow table holds; inject_flow on a new key is not drawn
\* beyond it.
MaxFlows == 2
\* Cap of an edge counter: inject_flow is not drawn when its path would push
\* a counter past it.
MaxLoad == 2
\* Operations performed in one run.
MaxOps == 3

\* ------------------------------------------------------- topology of main
Nodes == {"A", "B", "C", "D", "E"}
\* A name that is no node of G.
Absent == "F"
NodeIds == Nodes \cup {Absent}
MainEdges == {{"A", "C"}, {"A", "E"}, {"B", "E"}, {"C", "E"}, {"D", "E"}}
\* The links the operator may insert before the first flow operation, and the
\* node names drawn by fail_link.
ExtraLinks == {{"B", "C"}}
LinkNodes == {"A", "B", "C", "E", Absent}
\* The (src, dst) requests drawn: the three of main (lines 161-163), one with
\* src = dst, and one for each endpoint being absent.
FlowKeys == {<<"A", "B">>, <<"A", "C">>, <<"B", "C">>, <<"A", "A">>, <<"A", Absent>>, <<Absent, "C">>}

NONE == <<>>

\* ---------------------------------------------------------------- helpers
Max(a, b) == IF a >= b THEN a ELSE b
Range(f) == {f[i] : i \in DOMAIN f}

\* G.has_edge(u, v)
has_edge(nf, u, v) == u # v /\ {u, v} \in DOMAIN nf

\* zip(path, path[1:]) as the set of ordered consecutive pairs
zip_pairs(path) == {<<path[i], path[i + 1]>> : i \in 1..(Len(path) - 1)}

\* the undirected edges a path traverses
PathEdges(path) == {{path[i], path[i + 1]} : i \in 1..(Len(path) - 1)}

\* how many times the loop over zip(path, path[1:]) visits edge e
Visits(path, e) == Cardinality({i \in 1..(Len(path) - 1) : {path[i], path[i + 1]} = e})

\* for u, v in zip(path, path[1:]): if G.has_edge(u, v): num_flows += 1
IncrementAlong(nf, path) == [e \in DOMAIN nf |-> nf[e] + Visits(path, e)]

\* a decrement without the floor of max(0, ...)
DecrementAlong_no_floor(nf, path) == [e \in DOMAIN nf |-> nf[e] - Visits(path, e)]

\* for u, v in zip(path, path[1:]): if G.has_edge(u, v):
\*     num_flows = max(0, num_flows - 1)
DecrementAlong(nf, path) == [e \in DOMAIN nf |-> Max(0, nf[e] - Visits(path, e))]

\* ------------------------------------------------------------ path library
\* every sequence of distinct nodes
SimpleSeqs == UNION {{p \in [1..n -> Nodes] : \A i, j \in 1..n : i # j => p[i] # p[j]} : n \in 1..Cardinality(Nodes)}

\* the sequences of distinct nodes from src to dst
SimpleBetween == [src \in Nodes, dst \in Nodes |-> {p \in SimpleSeqs : p[1] = src /\ p[Len(p)] = dst}]

\* the simple paths from src to dst over the edge set E
SimplePaths(E, src, dst) == {p \in SimpleBetween[src, dst] : PathEdges(p) \subseteq E}

ShortestOf(S) == {p \in S : \A q \in S : Len(p) <= Len(q)}

\* every listing of the path set S in non-decreasing length
RECURSIVE Listings(_)
Listings(S) == IF S = {} THEN {<<>>} ELSE UNION {{<<p>> \o r : r \in Listings(S \ {p})} : p \in ShortestOf(S)}

\* list(nx.shortest_simple_paths(G, src, dst)): the listings the library may
\* produce (never empty here: NetworkXNoPath is raised when there is no path)
shortest_simple_paths(E, src, dst) == Listings(SimplePaths(E, src, dst))

\* nx.shortest_path(G_copy, s, t): the paths the library may return
shortest_path(E, src, dst) == ShortestOf(SimplePaths(E, src, dst))

\* ------------------------------------------------------------ compute_path
path_cost(nf, path) == LET loads == {nf[e] : e \in PathEdges(path)} IN CHOOSE m \in loads : \A x \in loads : x <= m

\* min that returns the head of the listing, whatever the keys
MinByCost_first(nf, paths) == paths[1]

\* min(paths, key=path_cost): the first element of least key
MinByCost(nf, paths) == LET n == Len(paths)
                            i == CHOOSE k \in 1..n : \A j \in 1..n : IF j < k THEN path_cost(nf, paths[j]) > path_cost(nf, paths[k]) ELSE path_cost(nf, paths[j]) >= path_cost(nf, paths[k])
                        IN paths[i]

\* compute_path that load-balances priority requests too
compute_path_ignores_priority(nf, paths, priority) == IF Len(paths[1]) = 1 THEN paths[1] ELSE MinByCost(nf, paths)

\* lines 19-25, on the listing `paths` of line 12
compute_path(nf, paths, priority) == IF priority THEN paths[1] ELSE MinByCost(nf, paths)

\* max() of an empty sequence raises ValueError: a non-priority request the
\* listing of which holds a path without edges
RaisesValueError(paths, priority) == ~priority /\ \E i \in 1..Len(paths) : Len(paths[i]) = 1

\* ----------------------------------------------------- compute_backup_path
\* G_copy with the removal of lines 53-55 left out
G_copy_keeps_primary(E, primary_path) == E

\* the edges of G_copy after the primary path's edges are removed
G_copy(E, primary_path) == E \ PathEdges(primary_path)

\* the values compute_backup_path may return (NONE on NetworkXNoPath)
compute_backup_path(E, primary_path) == LET S == shortest_path(G_copy(E, primary_path), primary_path[1], primary_path[Len(primary_path)])
                                        IN IF S = {} THEN {NONE} ELSE S

\* -------------------------------------------------------------- flow table
Keys(ft) == {ft[i].key : i \in 1..Len(ft)}
IndexOf(ft, key) == CHOOSE i \in 1..Len(ft) : ft[i].key = key
Lookup(ft, key) == ft[IndexOf(ft, key)]

\* info.get(info['active'], [])
ActivePath(info) == IF info.active = "primary" THEN info.primary ELSE info.backup

\* flow_table[key] = entry: an existing key keeps its place in the dict
Put(ft, entry) == IF entry.key \in Keys(ft) THEN [ft EXCEPT ![IndexOf(ft, entry.key)] = entry] ELSE Append(ft, entry)

\* del flow_table[key]
Del(ft, key) == SelectSeq(ft, LAMBDA x : x.key # key)

\* what the last operation printed: its name, its result, the pair it was
\* about (inject_flow, a remove_flow that removed, a fail_link that failed a
\* link) and one line per flow it removed, rerouted or evicted, with the
\* selector that was active before
Report(op, result, key, flows) == [op |-> op, result |-> result, key |-> key, flows |-> flows]

\* ------------------------------------------------------------------- Init
\* G after lines 151-160, flow_table of line 7
Init == /\ nodes = Nodes
        /\ num_flows = [e \in MainEdges |-> 0]
        /\ flow_table = <<>>
        /\ outcome = Report("init", "init", <<>>, {})
        /\ ops = 0

\* an uncaught exception has ended the process
Running == outcome.result # "NodeNotFound"

\* ---------------------------------------------------------------- add_flow
\* an add_flow that first gives back the load of the record it overwrites
add_flow_releases_old(nf, ft, src, dst, path, priority, critical, backup_path) == [flow_table |-> Put(ft, [key |-> <<src, dst>>, priority |-> priority, critical |-> critical, primary |-> path, backup |-> backup_path, active |-> "primary"]), num_flows |-> IncrementAlong(IF <<src, dst>> \in Keys(ft) THEN DecrementAlong(nf, ActivePath(Lookup(ft, <<src, dst>>))) ELSE nf, path)]

\* lines 63-78
add_flow(nf, ft, src, dst, path, priority, critical, backup_path) == [flow_table |-> Put(ft, [key |-> <<src, dst>>, priority |-> priority, critical |-> critical, primary |-> path, backup |-> backup_path, active |-> "primary"]), num_flows |-> IncrementAlong(nf, path)]

\* ------------------------------------------------------------- inject_flow
\* the request stays within the bounds of the model
InBounds(ft, nf, src, dst, path) == /\ (<<src, dst>> \in Keys(ft) \/ Len(ft) < MaxFlows)
                                    /\ \A e \in PathEdges(path) : nf[e] < MaxLoad

Unchanged(op, result, key) == /\ outcome' = Report(op, result, key, {})
                              /\ UNCHANGED <<nodes, num_flows, flow_table>>

\* a failed install that falls through to add_flow (the return of line 42
\* left out)
no_path_adds_flow(src, dst, priority, critical) == /\ outcome' = Report("inject_flow", "no_path", <<src, dst>>, {})
                                                   /\ flow_table' = add_flow(num_flows, flow_table, src, dst, NONE, priority, critical, NONE).flow_table
                                                   /\ UNCHANGED <<nodes, num_flows>>

\* lines 40-42: compute_path returned None
no_path(src, dst, priority, critical) == Unchanged("inject_flow", "no_path", <<src, dst>>)

\* a backup computed for every flow, critical or not
backup_choices_always(E, path, critical) == compute_backup_path(E, path)

\* lines 39 and 43-44: backup_path stays None unless the flow is critical
backup_choices(E, path, critical) == IF critical THEN compute_backup_path(E, path) ELSE {NONE}

inject_flow(src, dst, priority, critical) ==
    /\ Running
    /\ IF src \notin nodes \/ dst \notin nodes
       THEN Unchanged("inject_flow", "NodeNotFound", <<src, dst>>)
       ELSE IF SimplePaths(DOMAIN num_flows, src, dst) = {}
       THEN no_path(src, dst, priority, critical)
       ELSE \E paths \in shortest_simple_paths(DOMAIN num_flows, src, dst) :
              IF RaisesValueError(paths, priority)
              THEN Unchanged("inject_flow", "ValueError", <<src, dst>>)
              ELSE LET path == compute_path(num_flows, paths, priority)
                   IN /\ InBounds(flow_table, num_flows, src, dst, path)
                      /\ \E backup_path \in backup_choices(DOMAIN num_flows, path, critical) :
                            LET r == add_flow(num_flows, flow_table, src, dst, path, priority, critical, backup_path)
                            IN /\ flow_table' = r.flow_table
                               /\ num_flows' = r.num_flows
                      /\ outcome' = Report("inject_flow", "ok", <<src, dst>>, {})
                      /\ UNCHANGED nodes

\* ------------------------------------------------------------- remove_flow
\* a release that always walks the primary path
released_path_primary(flow) == flow.primary

\* line 89: flow.get(flow['active'], [])
released_path(flow) == ActivePath(flow)

remove_flow(src, dst) ==
    /\ Running
    /\ IF <<src, dst>> \notin Keys(flow_table)
       THEN Unchanged("remove_flow", "no_flow", <<>>)
       ELSE /\ num_flows' = DecrementAlong(num_flows, released_path(Lookup(flow_table, <<src, dst>>)))
            /\ flow_table' = Del(flow_table, <<src, dst>>)
            /\ outcome' = Report("remove_flow", "removed", <<src, dst>>, {<<<<src, dst>>, Lookup(flow_table, <<src, dst>>).active, "REMOVED">>})
            /\ UNCHANGED nodes

\* --------------------------------------------------------------- fail_link
\* remove_edge that resets the counter and leaves the edge in place
remove_edge_keeps(nf, u, v) == [e \in DOMAIN nf |-> IF e = {u, v} THEN 0 ELSE nf[e]]

\* G.remove_edge(u, v)
remove_edge(nf, u, v) == [e \in DOMAIN nf \ {{u, v}} |-> nf[e]]

\* a scan that looks for (u, v) in the order given only
Affected_directed(info, u, v) == <<u, v>> \in zip_pairs(ActivePath(info))

\* a scan that also looks at the path that is not active
Affected_any_path(info, u, v) == {u, v} \in PathEdges(info.primary) \cup PathEdges(info.backup)

\* line 113; `and` binds tighter than `or`
Affected(info, u, v) == LET path == ActivePath(info)
                        IN (path # <<>> /\ <<u, v>> \in zip_pairs(path)) \/ <<v, u>> \in zip_pairs(path)

\* a scan that stops at the first affected flow
affected_flows_first_only(ft, u, v) == LET a == SelectSeq(ft, LAMBDA info : Affected(info, u, v)) IN IF a = <<>> THEN a ELSE <<Head(a)>>

\* lines 110-114
affected_flows(ft, u, v) == SelectSeq(ft, LAMBDA info : Affected(info, u, v))

\* a promotion decided on the priority flag
Promotes_by_priority(info) == info.priority /\ info.backup # NONE

\* line 125: the branch taken for one affected flow
Promotes(info) == info.critical /\ info.backup # NONE

\* lines 119-123: the old (active) path gives its load back
decrement_old(nf, info) == DecrementAlong(nf, ActivePath(info))

\* a reroute that switches to whichever path was not active
reroute_toggles(nf, ft, info) == [num_flows |-> IncrementAlong(nf, info.backup), flow_table |-> Put(ft, [info EXCEPT !.active = IF info.active = "backup" THEN "primary" ELSE "backup"])]

\* a reroute that forgets the counters of the backup path
reroute_no_increment(nf, ft, info) == [num_flows |-> nf, flow_table |-> Put(ft, [info EXCEPT !.active = "backup"])]

\* lines 126-131: the backup path takes the load, the record stays
reroute(nf, ft, info) == [num_flows |-> IncrementAlong(nf, info.backup), flow_table |-> Put(ft, [info EXCEPT !.active = "backup"])]

\* an eviction that leaves the record in the table
evict_keeps_record(nf, ft, info) == [num_flows |-> nf, flow_table |-> ft]

\* line 135: the record is deleted
evict(nf, ft, info) == [num_flows |-> nf, flow_table |-> Del(ft, info.key)]

\* lines 116-136, one iteration per element of `affected`
RECURSIVE handle_affected(_, _, _)
handle_affected(affected, nf, ft) ==
    IF affected = <<>> THEN [num_flows |-> nf, flow_table |-> ft]
    ELSE LET info == Head(affected)
             nf1 == decrement_old(nf, info)
             r == IF Promotes(info) THEN reroute(nf1, ft, info) ELSE evict(nf1, ft, info)
         IN handle_affected(Tail(affected), r.num_flows, r.flow_table)

\* lines 107-136: the counters and the table after the edge was removed and
\* each affected flow handled
failed(nf, ft, u, v) == handle_affected(affected_flows(ft, u, v), remove_edge(nf, u, v), ft)

fail_link(u, v) ==
    /\ Running
    /\ IF ~has_edge(num_flows, u, v)
       THEN Unchanged("fail_link", "not_found", <<>>)
       ELSE LET r == failed(num_flows, flow_table, u, v)
            IN /\ num_flows' = r.num_flows
               /\ flow_table' = r.flow_table
               /\ outcome' = Report("fail_link", "failed", <<u, v>>, {<<info.key, info.active, IF Promotes(info) THEN "REROUTED" ELSE "EVICTED">> : info \in Range(affected_flows(flow_table, u, v))})
               /\ UNCHANGED nodes

\* ------------------------------------------------------------- insert_link
\* lines 171-181 of the command loop
insert_link(u, v) ==
    /\ Running
    /\ IF ~(u \in nodes /\ v \in nodes)
       THEN Unchanged("insert_link", "nodes_missing", <<>>)
       ELSE IF has_edge(num_flows, u, v)
       THEN Unchanged("insert_link", "link_exists", <<>>)
       ELSE /\ num_flows' = [e \in DOMAIN num_flows \cup {{u, v}} |-> IF e = {u, v} THEN 0 ELSE num_flows[e]]
            /\ outcome' = Report("insert_link", "link_added", <<>>, {})
            /\ UNCHANGED <<nodes, flow_table>>

\* ------------------------------------------------------------------- Next
\* one more operation of the run
Count == ops < MaxOps /\ ops' = ops + 1

\* the operator edits the topology before the first flow operation
SetupLink == /\ outcome.op \in {"init", "insert_link"}
             /\ \E u, v \in Nodes : {u, v} \in ExtraLinks /\ insert_link(u, v)
             /\ UNCHANGED ops

Inject == Count /\ \E key \in FlowKeys, priority, critical \in BOOLEAN : inject_flow(key[1], key[2], priority, critical)

Remove == Count /\ \E key \in FlowKeys : remove_flow(key[1], key[2])

Fail == Count /\ \E u, v \in LinkNodes : fail_link(u, v)

Next == SetupLink \/ Inject \/ Remove \/ Fail

Spec == Init /\ [][Next]_vars

\* ================================================================== claims
Records == Range(flow_table)
Edges == DOMAIN num_flows

\* the records whose active path traverses edge e
Traversing(ft, e) == {i \in 1..Len(ft) : e \in PathEdges(ActivePath(ft[i]))}

\* C1: load conservation.  For every edge of the topology, num_flows equals
\* the number of flow records whose active path contains that edge.
C1_LoadConservation == \A e \in Edges : num_flows[e] = Cardinality(Traversing(flow_table, e))

\* C2: single promotion.  fail_link(u, v) on an existing edge of the backup
\* path of a record that is already on its backup leaves no record for that
\* (src, dst) in the flow table.
C2_SecondFailureEvicts == [][\A u, v \in LinkNodes : (has_edge(num_flows, u, v) /\ fail_link(u, v)) => \A info \in Records : (info.active = "backup" /\ {u, v} \in PathEdges(info.backup)) => info.key \notin Keys(flow_table')]_vars

\* C3: backup disjointness.  In every reachable state the backup path of a
\* critical record that has one shares no undirected edge with its primary.
C3_BackupDisjoint == \A info \in Records : (info.critical /\ info.backup # NONE) => PathEdges(info.backup) \cap PathEdges(info.primary) = {}

\* a critical record whose backup traverses edges, installed while its
\* primary was a shortest route
C3_Witness == \E info \in Records : info.critical /\ Len(info.backup) >= 2 /\ Len(info.primary) >= 2 /\ Len(info.primary) <= Len(info.backup)

\* C4: a failed install is atomic.  When inject_flow is called with src and
\* dst both in the topology and no path between them, it reports failure and
\* nodes, edges, every edge counter and the flow table are as before.
C4_FailedInstallAtomic == [][\A key \in FlowKeys : (outcome'.op = "inject_flow" /\ outcome'.key = key /\ key[1] \in nodes /\ key[2] \in nodes /\ SimplePaths(Edges, key[1], key[2]) = {}) => (outcome'.result = "no_path" /\ nodes' = nodes /\ num_flows' = num_flows /\ flow_table' = flow_table)]_vars

\* a failed install between two nodes of the topology while the table holds a
\* record and an edge carries load
C4_Witness == /\ outcome.op = "inject_flow" /\ outcome.result = "no_path"
              /\ outcome.key[1] \in nodes /\ outcome.key[2] \in nodes
              /\ flow_table # <<>>
              /\ \E e \in Edges : num_flows[e] > 0

\* C5: an absent endpoint yields NONE.  When inject_flow is called with src
\* or dst not a node of the topology, the result is the ordinary no-path
\* outcome and no record is created.
C5_AbsentEndpointNone == (outcome.op = "inject_flow" /\ (outcome.key[1] \notin nodes \/ outcome.key[2] \notin nodes)) => (outcome.result = "no_path" /\ outcome.key \notin Keys(flow_table))

\* C6: fail_link on a missing edge is a no-op, and fail_link is idempotent.
\* If (u, v) is no edge, fail_link(u, v) reports not-found and changes no
\* edge, counter or record; and after any fail_link(u, v) the edge (u, v) is
\* absent, so that an immediate second call is such a no-op.
C6_FailMissingNoOp == [][\A u, v \in LinkNodes : (outcome'.op = "fail_link" /\ fail_link(u, v)) => ((~has_edge(num_flows, u, v) => (outcome'.result = "not_found" /\ nodes' = nodes /\ num_flows' = num_flows /\ flow_table' = flow_table)) /\ ~has_edge(num_flows', u, v) /\ ~has_edge(num_flows', v, u))]_vars

\* fail_link reported not-found for the second of two operations, the first
\* of which removed a link of main's topology, while a flow is installed
C6_Witness == /\ outcome.op = "fail_link" /\ outcome.result = "not_found"
              /\ \E e \in MainEdges : e \notin Edges
              /\ flow_table # <<>>

\* load assignments over the edge set E: every edge at 0, or at MaxLoad if it
\* is among the edges R (the edges that lie on some src-dst path)
AltLoads(E, R) == {[e \in E |-> IF e \in S THEN MaxLoad ELSE 0] : S \in SUBSET R}

\* the paths a priority request may get under the counters nf, L being the
\* listings the library may produce
PriorityChoice(L, nf) == {compute_path(nf, paths, TRUE) : paths \in L}

C7_Case(key, primary) == LET P == SimplePaths(Edges, key[1], key[2])
                             L == shortest_simple_paths(Edges, key[1], key[2])
                         IN (primary \in P /\ (\A q \in P : Len(primary) <= Len(q)) /\ (\A nf2 \in AltLoads(Edges, UNION {PathEdges(q) : q \in P}) : primary \in PriorityChoice(L, nf2)))

\* C7: priority path selection.  A successful inject_flow with priority = true
\* stores as primary a path of minimum hop count among all simple src-dst
\* paths, and the path is one the request gets under every other assignment
\* of edge counters over the same edges.
C7_PriorityShortest == [][\A key \in FlowKeys : (outcome'.op = "inject_flow" /\ outcome'.result = "ok" /\ outcome'.key = key /\ Lookup(flow_table', key).priority) => C7_Case(key, Lookup(flow_table', key).primary)]_vars

\* a priority flow installed on a path of at least one edge although another
\* path had a smaller bottleneck load before the install
C7_Witness == /\ outcome.op = "inject_flow" /\ outcome.result = "ok"
              /\ LET info == Lookup(flow_table, outcome.key)
                 IN /\ info.priority
                    /\ Len(info.primary) >= 2
                    /\ \E q \in SimplePaths(Edges, outcome.key[1], outcome.key[2]) : path_cost(num_flows, q) + 1 < path_cost(num_flows, info.primary)

C8_Case(key, primary) == LET P == SimplePaths(Edges, key[1], key[2]) IN (primary \in P /\ (\A q \in P : path_cost(num_flows, primary) <= path_cost(num_flows, q)) /\ (\A q \in P : path_cost(num_flows, q) = path_cost(num_flows, primary) => Len(primary) <= Len(q)))

\* C8: load-balance path selection.  A successful inject_flow with
\* priority = false between distinct nodes stores as primary a simple path of
\* minimal bottleneck load (on the counters before the install), and among
\* the paths of minimal bottleneck load one that a listing in non-decreasing
\* length puts first, that is, one of least length.
C8_LoadBalance == [][\A key \in FlowKeys : (outcome'.op = "inject_flow" /\ outcome'.result = "ok" /\ outcome'.key = key /\ key[1] # key[2] /\ ~Lookup(flow_table', key).priority) => C8_Case(key, Lookup(flow_table', key).primary)]_vars

\* a non-priority flow installed on an unloaded path although an edge-disjoint
\* path of the same length exists, one edge of which was loaded
C8_Witness == /\ outcome.op = "inject_flow" /\ outcome.result = "ok"
              /\ LET info == Lookup(flow_table, outcome.key)
                 IN /\ ~info.priority
                    /\ Len(info.primary) >= 2
                    /\ path_cost(num_flows, info.primary) = 1
                    /\ \E q \in SimplePaths(Edges, outcome.key[1], outcome.key[2]) : /\ Len(q) = Len(info.primary)
                                                                                        /\ PathEdges(q) \cap PathEdges(info.primary) = {}
                                                                                        /\ path_cost(num_flows, q) > 0

\* the records whose active path holds u and v as consecutive nodes
AffectedBy(ft, u, v) == {i \in 1..Len(ft) : {u, v} \in PathEdges(ActivePath(ft[i]))}

\* the counter of edge e after fail_link(u, v): every affected flow gives its
\* unit back, every affected critical flow with a backup adds one along it
ExpectedLoad(e, u, v) == num_flows[e] - Cardinality({i \in AffectedBy(flow_table, u, v) : e \in PathEdges(ActivePath(flow_table[i]))}) + Cardinality({i \in AffectedBy(flow_table, u, v) : flow_table[i].critical /\ flow_table[i].backup # NONE /\ e \in PathEdges(flow_table[i].backup)})

C9_Case(u, v) == \A info \in Records : (info.active = "primary" /\ info.critical /\ info.backup # NONE /\ {u, v} \in PathEdges(info.primary)) => (info.key \in Keys(flow_table') /\ Lookup(flow_table', info.key) = [info EXCEPT !.active = "backup"] /\ (\A e \in DOMAIN num_flows' : num_flows'[e] = ExpectedLoad(e, u, v)))

Excess(nf, ft, e) == nf[e] - Cardinality(Traversing(ft, e))

C10_Case(u, v) == \A info \in Records : ({u, v} \in PathEdges(ActivePath(info)) /\ (~info.critical \/ info.backup = NONE)) => (info.key \notin Keys(flow_table') /\ (\A e \in DOMAIN num_flows' : Excess(num_flows', flow_table', e) = Excess(num_flows, flow_table, e)))

\* C10: eviction on failure.  When fail_link(u, v) removes an existing edge of
\* the active path of a record that is non-critical, or critical without a
\* backup, the table has no record for that (src, dst) afterwards and every
\* edge left in the topology has lost the unit of load of each flow that no
\* longer traverses it.
C10_EvictOnFailure == [][\A u, v \in LinkNodes : (outcome'.op = "fail_link" /\ has_edge(num_flows, u, v) /\ fail_link(u, v)) => C10_Case(u, v)]_vars

\* fail_link has evicted a flow while another record stays in the table
C10_Witness == /\ outcome.op = "fail_link"
               /\ \E f \in outcome.flows : f[3] = "EVICTED" /\ f[1] \notin Keys(flow_table)
               /\ flow_table # <<>>

\* C11: remove_flow effect.  A remove_flow on a key that has a record lowers
\* by one, and never below 0, the counter of each edge of the record's active
\* path that is still in the topology, deletes the record, and leaves every
\* other record, every other counter and the edge set as they were.
C11_RemoveFlowEffect == [][\A key \in FlowKeys : (outcome'.op = "remove_flow" /\ key \in Keys(flow_table) /\ remove_flow(key[1], key[2])) => ((DOMAIN num_flows' = DOMAIN num_flows) /\ (\A e \in Edges : num_flows'[e] = (IF e \in PathEdges(ActivePath(Lookup(flow_table, key))) THEN Max(0, num_flows[e] - 1) ELSE num_flows[e])) /\ (Keys(flow_table') = Keys(flow_table) \ {key}) /\ (\A k \in Keys(flow_table') : Lookup(flow_table', k) = Lookup(flow_table, k)) /\ (nodes' = nodes))]_vars

\* a flow that had been rerouted to its backup has just been removed
C11_Witness == /\ outcome.op = "remove_flow" /\ outcome.result = "removed"
               /\ \E f \in outcome.flows : f[2] = "backup" /\ f[1] \notin Keys(flow_table)

\* the states of the reference scenario on main's topology: before the first
\* install, after it, and after the second install
ScenarioAC(priority) == [key |-> <<"A", "C">>, priority |-> priority, critical |-> TRUE, primary |-> <<"A", "C">>, backup |-> <<"A", "E", "C">>, active |-> "primary"]
ScenarioStart == (nodes = Nodes) /\ (Edges = MainEdges) /\ (flow_table = <<>>) /\ (\A e \in Edges : num_flows[e] = 0)
ScenarioOne == (nodes = Nodes) /\ (Edges = MainEdges) /\ (Len(flow_table) = 1) /\ (flow_table[1].key = <<"B", "C">>) /\ (flow_table[1].priority) /\ (flow_table[1].primary = <<"B", "E", "C">>) /\ (flow_table[1].active = "primary") /\ (\A e \in Edges : num_flows[e] = (IF e \in {{"B", "E"}, {"C", "E"}} THEN 1 ELSE 0))
ScenarioTwo == (nodes = Nodes) /\ (Edges = MainEdges) /\ (Len(flow_table) = 2) /\ (flow_table[1].key = <<"B", "C">>) /\ (flow_table[1].priority) /\ (flow_table[1].primary = <<"B", "E", "C">>) /\ (flow_table[1].active = "primary") /\ (\E priority \in BOOLEAN : flow_table[2] = ScenarioAC(priority)) /\ (\A e \in Edges : num_flows[e] = (IF e \in {{"B", "E"}, {"C", "E"}, {"A", "C"}} THEN 1 ELSE 0))

\* C12: reference scenario.  On main's topology a priority install of B -> C
\* takes the primary B-E-C; a critical install of A -> C then takes the primary
\* A-C with the backup A-E-C; fail_link(A, C) then leaves A -> C in the table
\* on its backup, the counters of A-E and E-C one higher than before the
\* failure, the edge A-C absent and the record of B -> C unchanged.
C12_ReferenceScenario == [][((ScenarioStart /\ (\E critical \in BOOLEAN : inject_flow("B", "C", TRUE, critical))) => ((outcome'.result = "ok") /\ (Lookup(flow_table', <<"B", "C">>).primary = <<"B", "E", "C">>) /\ ScenarioOne')) /\ ((ScenarioOne /\ (\E priority \in BOOLEAN : inject_flow("A", "C", priority, TRUE))) => ((outcome'.result = "ok") /\ ScenarioTwo')) /\ ((ScenarioTwo /\ fail_link("A", "C")) => ((Keys(flow_table') = {<<"A", "C">>, <<"B", "C">>}) /\ (Lookup(flow_table', <<"A", "C">>) = [Lookup(flow_table, <<"A", "C">>) EXCEPT !.active = "backup"]) /\ (num_flows'[{"A", "E"}] = num_flows[{"A", "E"}] + 1) /\ (num_flows'[{"C", "E"}] = num_flows[{"C", "E"}] + 1) /\ ({"A", "C"} \notin DOMAIN num_flows') /\ (DOMAIN num_flows' = MainEdges \ {{"A", "C"}}) /\ (Lookup(flow_table', <<"B", "C">>) = Lookup(flow_table, <<"B", "C">>))))]_vars

\* the end of the scenario: three operations, A -> C rerouted from its primary
\* by the failure of A-C, B -> C still on B-E-C
C12_Witness == /\ ops = 3 /\ outcome.op = "fail_link" /\ outcome.key = <<"A", "C">>
               /\ outcome.flows = {<<<<"A", "C">>, "primary", "REROUTED">>}
               /\ Len(flow_table) = 2
               /\ flow_table[1].key = <<"B", "C">> /\ flow_table[1].primary = <<"B", "E", "C">> /\ flow_table[1].active = "primary"
               /\ flow_table[2].key = <<"A", "C">> /\ flow_table[2].backup = <<"A", "E", "C">> /\ flow_table[2].active = "backup"
               /\ Edges = MainEdges \ {{"A", "C"}}
               /\ num_flows[{"A", "E"}] = 1 /\ num_flows[{"C", "E"}] = 2 /\ num_flows[{"B", "E"}] = 1

\* C13: no return to the primary.  A record whose active selector is "backup"
\* never has it set to "primary" while it stays in the table, unless an
\* install on the same key overwrites it; remove_flow and fail_link never set
\* a selector to "primary".
C13_NoReturnToPrimary == [][\A info \in Records : ((info.active = "backup") /\ (info.key \in Keys(flow_table')) /\ ~((outcome'.op = "inject_flow") /\ (outcome'.result = "ok") /\ (outcome'.key = info.key))) => (Lookup(flow_table', info.key).active = "backup")]_vars

\* a failure has hit a flow that was on its backup and the record is still in
\* the table
C13_Witness == /\ outcome.op = "fail_link"
               /\ \E f \in outcome.flows : f[2] = "backup" /\ f[1] \in Keys(flow_table) /\ Lookup(flow_table, f[1]).active = "backup"

\* C14: re-install overwrite.  A successful inject_flow on a key that already
\* has a record replaces that record by a new one on its primary, with the
\* newly selected primary and backup, and raises by one the counter of each
\* edge of the new primary; no counter is lowered, those of the old record's
\* active path included, and the other records stay as they were.
C14_ReinstallOverwrite == [][\A key \in FlowKeys : ((outcome'.op = "inject_flow") /\ (outcome'.result = "ok") /\ (outcome'.key = key) /\ (key \in Keys(flow_table))) => ((Keys(flow_table') = Keys(flow_table)) /\ (Lookup(flow_table', key).active = "primary") /\ (Lookup(flow_table', key).primary \in SimplePaths(Edges, key[1], key[2])) /\ (Lookup(flow_table', key).backup \in backup_choices(Edges, Lookup(flow_table', key).primary, Lookup(flow_table', key).critical)) /\ (DOMAIN num_flows' = DOMAIN num_flows) /\ (\A e \in Edges : num_flows'[e] = num_flows[e] + (IF e \in PathEdges(Lookup(flow_table', key).primary) THEN 1 ELSE 0)) /\ (\A k \in Keys(flow_table) \ {key} : Lookup(flow_table', k) = Lookup(flow_table, k)))]_vars

\* the second of two operations was an install over the only record, and an
\* edge off the new primary still carries the load of the overwritten one
C14_Witness == /\ ops = 2 /\ outcome.op = "inject_flow" /\ outcome.result = "ok"
               /\ Len(flow_table) = 1 /\ flow_table[1].key = outcome.key
               /\ \E e \in Edges \ PathEdges(flow_table[1].primary) : num_flows[e] > 0

\* ------------------------------------------------------- the command loop
\* lines 161-163: the three flows main installs before it reads commands
MainFlows == <<[key |-> <<"A", "B">>, priority |-> FALSE, critical |-> FALSE, primary |-> <<"A", "E", "B">>, backup |-> NONE, active |-> "primary"], [key |-> <<"A", "C">>, priority |-> FALSE, critical |-> TRUE, primary |-> <<"A", "C">>, backup |-> <<"A", "E", "C">>, active |-> "primary"], [key |-> <<"B", "C">>, priority |-> TRUE, critical |-> FALSE, primary |-> <<"B", "E", "C">>, backup |-> NONE, active |-> "primary"]>>

\* lines 146-163: the state in which the command loop starts
InitShell == /\ nodes = Nodes
             /\ num_flows = [e \in MainEdges |-> Cardinality(Traversing(MainFlows, e))]
             /\ flow_table = MainFlows
             /\ outcome = Report("init", "init", <<>>, {})
             /\ ops = 0

\* the commands of a session: one more than the operations of a run of Spec,
\* whose installs InitShell already holds
MaxCommands == MaxOps + 1

\* one more command of the session
Command == ops < MaxCommands /\ ops' = ops + 1

\* lines 171-181: insert_link typed at any point of the session
ShellLink == Command /\ \E u, v \in LinkNodes : u # v /\ insert_link(u, v)

\* lines 196-206
ShellInject == Command /\ \E key \in FlowKeys, priority, critical \in BOOLEAN : inject_flow(key[1], key[2], priority, critical)

\* remove_flow (lines 80-98): no command of the loop calls it; it is part of
\* the controller and is offered next to the commands
ShellRemove == Command /\ \E key \in FlowKeys : remove_flow(key[1], key[2])

\* lines 207-211
ShellFail == Command /\ \E u, v \in LinkNodes : fail_link(u, v)

NextShell == ShellLink \/ ShellInject \/ ShellRemove \/ ShellFail

SpecShell == InitShell /\ [][NextShell]_vars

\* C15: load never negative.  In every state reached by install, remove,
\* fail-link and add-link operations every edge counter is at least 0.
C15_LoadNeverNegative == \A e \in Edges : num_flows[e] >= 0

\* a flow on its backup has been removed while A-E, failed and inserted again
\* at 0 under the flows routed over it, is in the topology with counter 0
C15_Witness == /\ outcome.op = "remove_flow" /\ outcome.result = "removed"
               /\ \E f \in outcome.flows : f[1] = <<"A", "C">> /\ f[2] = "backup"
               /\ {"A", "C"} \notin Edges /\ {"A", "E"} \in Edges /\ num_flows[{"A", "E"}] = 0
               /\ \E e \in Edges : num_flows[e] > 0

\* u and v are consecutive nodes of the path, in either order
Consecutive(path, u, v) == \E i \in 1..(Len(path) - 1) : (path[i] = u /\ path[i + 1] = v) \/ (path[i] = v /\ path[i + 1] = u)

\* C16: undirected failure matching.  fail_link(u, v) leaves the topology,
\* the counters and the flow table that fail_link(v, u) would leave, and the
\* flows it handles are exactly those whose active path has u and v as
\* consecutive nodes in either order.
C16_UndirectedMatching == [][\A u, v \in LinkNodes : ((outcome'.op = "fail_link") /\ fail_link(u, v)) => ((has_edge(num_flows, v, u) = has_edge(num_flows, u, v)) /\ (has_edge(num_flows, u, v) => ((num_flows' = failed(num_flows, flow_table, v, u).num_flows) /\ (flow_table' = failed(num_flows, flow_table, v, u).flow_table) /\ ({f[1] : f \in outcome'.flows} = {info.key : info \in {r \in Records : Consecutive(ActivePath(r), u, v)}}))) /\ ((~has_edge(num_flows, u, v)) => ((num_flows' = num_flows) /\ (flow_table' = flow_table))) /\ (nodes' = nodes))]_vars

\* fail_link(u, v) has rerouted a flow whose primary runs from v to u
C16_Witness == /\ outcome.op = "fail_link" /\ outcome.result = "failed"
               /\ \E f \in outcome.flows : /\ f[2] = "primary" /\ f[1] \in Keys(flow_table)
                                           /\ <<outcome.key[2], outcome.key[1]>> \in zip_pairs(Lookup(flow_table, f[1]).primary)

\* C17: fail_link frame.  When fail_link(u, v) removes an existing edge, every
\* record whose active path does not contain the edge is unchanged, even if
\* its inactive backup contains it, and a record that survives by rerouting
\* keeps its priority, critical, primary and backup: only active changes.
C17_FailLinkFrame == [][\A u, v \in LinkNodes : ((outcome'.op = "fail_link") /\ has_edge(num_flows, u, v) /\ fail_link(u, v)) => (\A info \in Records : (((~Consecutive(ActivePath(info), u, v)) => ((info.key \in Keys(flow_table')) /\ (Lookup(flow_table', info.key) = info))) /\ ((Consecutive(ActivePath(info), u, v) /\ (info.key \in Keys(flow_table'))) => (Lookup(flow_table', info.key) = [info EXCEPT !.active = "backup"]))))]_vars

\* the failed edge lies on the backup of a record that is still on its
\* primary, and another record has been rerouted by the same failure
C17_Witness == /\ outcome.op = "fail_link" /\ outcome.result = "failed"
               /\ \E info \in Records : info.active = "primary" /\ {outcome.key[1], outcome.key[2]} \in PathEdges(info.backup)
               /\ \E f \in outcome.flows : f[3] = "REROUTED" /\ f[1] \in Keys(flow_table)

\* C18 as stated: active paths are live.  After any sequence of install,
\* remove and fail-link operations every consecutive node pair of every
\* record's active path is an edge of the topology, records rerouted to a
\* backup one of whose edges had failed earlier included.
C18_ActivePathsLive == \A info \in Records : PathEdges(ActivePath(info)) \subseteq Edges

\* C18 amended: primary paths are live.  After any sequence of install,
\* remove and fail-link operations every consecutive node pair of the active
\* path of every record whose active selector is "primary" is an edge of the
\* topology; the path of a record on its backup may cross a removed edge.
C18_PrimaryPathsLive == \A info \in Records : (info.active = "primary") => (PathEdges(info.primary) \subseteq Edges)

\* a failure has taken a flow off an edge and a record routed over edges is
\* still on its primary
C18_Witness == /\ outcome.op = "fail_link" /\ outcome.result = "failed" /\ outcome.flows # {}
               /\ \E info \in Records : info.active = "primary" /\ Len(info.primary) >= 2

\* C19: an install with src = dst does not abort.  For a node n of the
\* topology, inject_flow(n, n, priority, critical) completes with a result,
\* installed over the one-node path or no path, for priority true and for
\* priority false, raises no error while taking the largest counter of a path
\* without edges, and changes no edge counter.
C19_SelfInstallCompletes == [][\A key \in FlowKeys : ((outcome'.op = "inject_flow") /\ (outcome'.key = key) /\ (key[1] = key[2]) /\ (key[1] \in nodes)) => ((outcome'.result \in {"ok", "no_path"}) /\ (num_flows' = num_flows))]_vars

\* C20: record well-formedness.  In every reachable state a record that is
\* not critical has no backup, a record on its backup is critical and has a
\* backup, and every primary starts at the src of its key, ends at the dst of
\* its key and repeats no node.
C20_RecordWellFormed == \A info \in Records : ((~info.critical) => (info.backup = NONE)) /\ ((info.active = "backup") => (info.critical /\ (info.backup # NONE))) /\ (Len(info.primary) >= 1) /\ (info.primary[1] = info.key[1]) /\ (info.primary[Len(info.primary)] = info.key[2]) /\ (\A i, j \in 1..Len(info.primary) : (i # j) => (info.primary[i] # info.primary[j]))

\* the table holds a record that is not critical although the topology
\* offers a route disjoint from its primary, next to a record on its backup
C20_Witness == /\ \E info \in Records : (~info.critical) /\ compute_backup_path(Edges, info.primary) # {NONE}
               /\ \E info \in Records : info.active = "backup"

====
